---- MODULE Spec2Model ----
(***************************************************************************)
(* Model of backend/main.py, the AI Trading Journal API: two in-memory     *)
(* lists (trades, market_conditions) and the request handlers over them.   *)
(* A trade keeps the fields the handlers read (trade_type, entry_price,    *)
(* exit_price, position_size, market_conditions); entry_date, symbol,      *)
(* notes and chart_images are stored but never read by any handler.        *)
(* Prices and sizes are integers; quotients (win rate, means, profit       *)
(* factor) are exact fractions <<numerator, denominator>> in lowest terms. *)
(***************************************************************************)
EXTENDS Integers, Sequences, FiniteSets, TLC

VARIABLES trades, market_conditions, response, frame, set_order

vars == <<trades, market_conditions, response, frame, set_order>>

(***************************************************************************)
(* Bounds of the exploration and program constants.                        *)
(***************************************************************************)
MaxTrades == 3
MaxPatternTrades == 11
MaxConditionTrades == 3
MaxRankingTrades == 10
MaxMarketConditions == 1

MinPatternTrades == 10
StatusOk == 200
StatusNotFound == 404
StatusBadRequest == 400
TopConditions == 3
TopFactors == 5
TopPatterns == 3

(***************************************************************************)
(* Generic helpers.                                                        *)
(***************************************************************************)
Range(s) == {s[i] : i \in 1..Len(s)}

Min(a, b) == IF a <= b THEN a ELSE b

Abs(x) == IF x < 0 THEN -x ELSE x

RECURSIVE GCD(_, _)
GCD(a, b) == IF b = 0 THEN a ELSE GCD(b, a % b)

\* n / d for n >= 0, d > 0, as a fraction in lowest terms
Frac(n, d) == <<n \div GCD(n, d), d \div GCD(n, d)>>

FracGT(p, q) == p[1] * q[2] > q[1] * p[2]

RECURSIVE SumSeq(_)
SumSeq(s) == IF s = <<>> THEN 0 ELSE s[1] + SumSeq(Tail(s))

\* sum(xs) / len(xs), the arithmetic mean of a non-empty list
Mean(xs) == Frac(SumSeq(xs), Len(xs))

(***************************************************************************)
(* TradeEntry and its derived profit_loss.                                 *)
(***************************************************************************)
TradeEntry(tt, en, ex, sz, mc) ==
    [trade_type |-> tt, entry_price |-> en, exit_price |-> ex,
     position_size |-> sz, market_conditions |-> mc]

profit_loss(t) ==
    LET multiplier == IF t.trade_type = "long" THEN 1 ELSE -1
    IN  multiplier * (t.exit_price - t.entry_price) * t.position_size

MarketCondition(n) == [name |-> n, description |-> "none"]

(***************************************************************************)
(* sorted(items, key=..., reverse=True): the keys are computed once per    *)
(* item, the sort is stable, and reverse=True keeps equal keys in their    *)
(* original order.  Items are records with a fraction-valued field key.    *)
(***************************************************************************)
RECURSIVE InsertDesc(_, _)
InsertDesc(s, e) ==
    IF s = <<>> THEN <<e>>
    ELSE IF FracGT(e.key, s[1].key) THEN <<e>> \o s
         ELSE <<s[1]>> \o InsertDesc(Tail(s), e)

RECURSIVE SortedDesc(_)
SortedDesc(s) ==
    IF s = <<>> THEN <<>>
    ELSE InsertDesc(SortedDesc(SubSeq(s, 1, Len(s) - 1)), s[Len(s)])

\* items[:n]
Take(s, n) == SubSeq(s, 1, Min(n, Len(s)))

(***************************************************************************)
(* analyze_performance: the metrics.                                       *)
(***************************************************************************)
IsWin(t) == profit_loss(t) > 0

IsLoss(t) == profit_loss(t) < 0

winning_trades(ts) == SelectSeq(ts, IsWin)

profits(ts) == LET w == SelectSeq(ts, IsWin)
               IN  [i \in 1..Len(w) |-> profit_loss(w[i])]

losses(ts) == LET l == SelectSeq(ts, IsLoss)
              IN  [i \in 1..Len(l) |-> Abs(profit_loss(l[i]))]

win_rate_with_break_even(ts) ==
    LET NotLoss(t) == profit_loss(t) >= 0
    IN  Frac(Len(SelectSeq(ts, NotLoss)), Len(ts))

win_rate(ts) == Frac(Len(winning_trades(ts)), Len(ts))

avg_win_over_all(ts) ==
    IF profits(ts) # <<>> THEN Frac(SumSeq(profits(ts)), Len(ts)) ELSE <<0, 1>>

avg_win(ts) == IF profits(ts) # <<>> THEN Mean(profits(ts)) ELSE <<0, 1>>

avg_loss(ts) == IF losses(ts) # <<>> THEN Mean(losses(ts)) ELSE <<0, 1>>

\* float('inf'), written as the fraction 1/0
Inf == <<1, 0>>

profit_factor_zero(ts) ==
    IF losses(ts) # <<>>
    THEN Frac(SumSeq(profits(ts)), Abs(SumSeq(losses(ts))))
    ELSE <<0, 1>>

profit_factor(ts) ==
    IF losses(ts) # <<>>
    THEN Frac(SumSeq(profits(ts)), Abs(SumSeq(losses(ts))))
    ELSE Inf

(***************************************************************************)
(* condition_performance: a dict label -> list of outcomes, kept here as   *)
(* the list of its items in insertion order.                               *)
(***************************************************************************)
AddOutcome(cp, c, won) ==
    IF \E i \in 1..Len(cp) : cp[i].name = c
    THEN [i \in 1..Len(cp) |->
            IF cp[i].name = c
            THEN [cp[i] EXCEPT !.results = Append(@, won)]
            ELSE cp[i]]
    ELSE Append(cp, [name |-> c, results |-> <<won>>])

RECURSIVE AddTrade(_, _, _)
AddTrade(cp, conds, won) ==
    IF conds = <<>> THEN cp
    ELSE AddTrade(AddOutcome(cp, conds[1], won), Tail(conds), won)

RECURSIVE condition_performance(_)
condition_performance(ts) ==
    IF ts = <<>> THEN <<>>
    ELSE LET t == ts[Len(ts)]
         IN  AddTrade(condition_performance(SubSeq(ts, 1, Len(ts) - 1)),
                      t.market_conditions, IsWin(t))

\* sum(x[1]) / len(x[1])
CountTrue(bs) == Cardinality({i \in 1..Len(bs) : bs[i]})

ConditionRate(item) == Frac(CountTrue(item.results), Len(item.results))

Keyed(cp) == [i \in 1..Len(cp) |->
                [name |-> cp[i].name, key |-> ConditionRate(cp[i])]]

best_conditions(ts) ==
    Take(SortedDesc(Keyed(condition_performance(ts))), TopConditions)

\* f"{x*100:.1f}": the percentage in tenths, rounded to nearest
PctTenths(r) == (2000 * r[1] + r[2]) \div (2 * r[2])

TradeAnalysis(ts) ==
    LET best == best_conditions(ts)
    IN  [win_rate |-> win_rate(ts),
         profit_factor |-> profit_factor(ts),
         average_win |-> avg_win(ts),
         average_loss |-> avg_loss(ts),
         best_conditions |-> [i \in 1..Len(best) |-> best[i].name],
         pattern_insights |->
            [i \in 1..Len(best) |->
                [text |-> "Best win rate in {}: {}%",
                 label |-> best[i].name, pct |-> PctTenths(best[i].key)]]]

(***************************************************************************)
(* analyze_patterns: features, names and the ranking of the importances.   *)
(* The set of all labels (the union of the trades' lists) is iterated in   *)
(* an order fixed by the interpreter's string hashing: any ordering of the *)
(* set, but the same one whenever the same set is built the same way, as   *)
(* it is for every trade of a call, for the names, and in a later call     *)
(* over the same labels.  set_order remembers the ordering of the last set *)
(* iterated.                                                               *)
(***************************************************************************)
UnionLabels(ts) == UNION {Range(ts[i].market_conditions) : i \in 1..Len(ts)}

Orderings(S) ==
    {o \in [1..Cardinality(S) -> S] :
        \A i, j \in 1..Cardinality(S) : o[i] = o[j] => i = j}

IterationOrders(S, last) ==
    IF Range(last) = S THEN {last} ELSE Orderings(S)

condition_features(trade, order) ==
    [k \in 1..Len(order) |->
        IF order[k] \in Range(trade.market_conditions) THEN 1 ELSE 0]

features(ts, order) ==
    [i \in 1..Len(ts) |->
        <<IF ts[i].trade_type = "long" THEN 1 ELSE 0, ts[i].position_size>>
            \o condition_features(ts[i], order)]

labels(ts) == [i \in 1..Len(ts) |-> IF profit_loss(ts[i]) > 0 THEN 1 ELSE 0]

feature_names_reversed(order) ==
    <<"trade_type", "position_size">>
        \o [k \in 1..Len(order) |-> order[Len(order) + 1 - k]]

feature_names(order) == <<"trade_type", "position_size">> \o order

importance_unsorted(names, scores) ==
    [k \in 1..Min(Len(names), Len(scores)) |->
        [name |-> names[k], key |-> <<scores[k], 1>>]]

\* zip(feature_names, clf.feature_importances_), sorted by score, descending
importance(names, scores) ==
    SortedDesc([k \in 1..Min(Len(names), Len(scores)) |->
                  [name |-> names[k], key |-> <<scores[k], 1>>]])

PatternReport(imp) ==
    [important_factors |->
        [i \in 1..Len(Take(imp, TopFactors)) |->
            [factor |-> imp[i].name, importance |-> imp[i].key[1]]],
     success_patterns |->
        [i \in 1..Min(TopPatterns, Len(imp)) |->
            [text |-> "High correlation between {} and profitable trades",
             factor |-> imp[i].name]]]

(***************************************************************************)
(* State: the two module-level lists, the last response sent, and the      *)
(* locals of the last analyze_patterns call (frame).                       *)
(***************************************************************************)
NoFrame == [features |-> <<>>, labels |-> <<>>, feature_names |-> <<>>,
            feature_importances |-> <<>>, importance |-> <<>>]

Reply(op, body) ==
    [op |-> op, status |-> StatusOk, detail |-> "", body |-> body]

HTTPException(op, code, detail) ==
    [op |-> op, status |-> code, detail |-> detail, body |-> <<>>]

\* "if not trades" and "if len(trades) < 10"
NoTradesOrOne(ts) == Len(ts) <= 1

NoTrades(ts) == ts = <<>>

TooFewTradesInclusive(ts) == Len(ts) <= MinPatternTrades

TooFewTrades(ts) == Len(ts) < MinPatternTrades

Init ==
    /\ trades = <<>>
    /\ market_conditions = <<>>
    /\ response = Reply("start", <<>>)
    /\ frame = NoFrame
    /\ set_order = <<>>

root ==
    /\ response' = Reply("root", "AI Trading Journal API")
    /\ frame' = NoFrame
    /\ UNCHANGED <<trades, market_conditions, set_order>>

create_trade_prepend(trade, cap) ==
    /\ Len(trades) < cap
    /\ trades' = <<trade>> \o trades
    /\ response' = Reply("create_trade", trade)
    /\ frame' = NoFrame
    /\ UNCHANGED <<market_conditions, set_order>>

create_trade(trade, cap) ==
    /\ Len(trades) < cap
    /\ trades' = Append(trades, trade)
    /\ response' = Reply("create_trade", trade)
    /\ frame' = NoFrame
    /\ UNCHANGED <<market_conditions, set_order>>

get_trades ==
    /\ response' = Reply("get_trades", trades)
    /\ frame' = NoFrame
    /\ UNCHANGED <<trades, market_conditions, set_order>>

create_market_condition(condition) ==
    /\ Len(market_conditions) < MaxMarketConditions
    /\ market_conditions' = Append(market_conditions, condition)
    /\ response' = Reply("create_market_condition", condition)
    /\ frame' = NoFrame
    /\ UNCHANGED <<trades, set_order>>

get_market_conditions ==
    /\ response' = Reply("get_market_conditions", market_conditions)
    /\ frame' = NoFrame
    /\ UNCHANGED <<trades, market_conditions, set_order>>

upload_chart_image(trade_id, filename) ==
    /\ response' = Reply("upload_chart_image", filename)
    /\ frame' = NoFrame
    /\ UNCHANGED <<trades, market_conditions, set_order>>

analyze_performance ==
    /\ response' =
         IF NoTrades(trades)
         THEN HTTPException("analyze_performance", StatusNotFound,
                            "No trades found")
         ELSE Reply("analyze_performance", TradeAnalysis(trades))
    /\ frame' = NoFrame
    /\ UNCHANGED <<trades, market_conditions, set_order>>

\* scores: the values the fitted classifier's feature_importances_ may take
analyze_patterns(scores) ==
    /\ IF TooFewTrades(trades)
       THEN /\ response' =
                 HTTPException("analyze_patterns", StatusBadRequest,
                               "Need at least 10 trades for pattern analysis")
            /\ frame' = NoFrame
            /\ UNCHANGED set_order
       ELSE \E order \in IterationOrders(UnionLabels(trades), set_order) :
                LET X == features(trades, order)
                    y == labels(trades)
                    names == feature_names(order)
                IN  \E fi \in [1..Len(X[1]) -> scores] :
                        LET imp == importance(names, fi)
                        IN  /\ frame' = [features |-> X,
                                         labels |-> y,
                                         feature_names |-> names,
                                         feature_importances |-> fi,
                                         importance |-> imp]
                            /\ response' = Reply("analyze_patterns",
                                                 PatternReport(imp))
                            /\ set_order' = order
    /\ UNCHANGED <<trades, market_conditions>>

(***************************************************************************)
(* The explorations.  Each draws the next trade a client submits from its *)
(* own set and bounds the number of trades submitted; scores are the       *)
(* importance values the classifier may report.                            *)
(***************************************************************************)
ConditionInputs == {MarketCondition("trend")}

TradeIds == {0}

Filenames == {"chart.png"}

\* the requests other than POST /trades/
Requests(scores) ==
    \/ root
    \/ get_trades
    \/ \E condition \in ConditionInputs : create_market_condition(condition)
    \/ get_market_conditions
    \/ \E id \in TradeIds, f \in Filenames : upload_chart_image(id, f)
    \/ analyze_performance
    \/ analyze_patterns(scores)

\* any trade_type string and any float are accepted: "swing" and a negative
\* exit price stand for the values outside the documented ranges
TradeInputs ==
    {TradeEntry(tt, 1, ex, 1, <<>>) :
        tt \in {"long", "short", "swing"}, ex \in {-1, 1, 2}}

Next ==
    \/ \E trade \in TradeInputs : create_trade(trade, MaxTrades)
    \/ Requests({0, 1})

Spec == Init /\ [][Next]_vars

\* winning and losing trades carrying up to two of four labels, a label
\* possibly twice (market_conditions is a list)
ConditionLabels == <<"trend", "range", "news", "gap">>

ConditionLists ==
    LET L == ConditionLabels
    IN  {<<>>} \cup {<<L[i]>> : i \in 1..Len(L)}
               \cup UNION {{<<L[i], L[j]>> : j \in i..Len(L)} : i \in 1..Len(L)}

ConditionTradeInputs ==
    {TradeEntry("long", 1, ex, 1, mc) : ex \in {0, 2}, mc \in ConditionLists}

NextConditions ==
    \/ \E trade \in ConditionTradeInputs :
            create_trade(trade, MaxConditionTrades)
    \/ Requests({0, 1})

SpecConditions == Init /\ [][NextConditions]_vars

\* a journal of eight trades over three labels, then any of two further
\* trades, enough to pass the floor of analyze_patterns
PatternJournal ==
    << TradeEntry("long", 1, 2, 1, <<"trend">>),
       TradeEntry("short", 1, 2, 2, <<"range">>),
       TradeEntry("long", 2, 1, 1, <<"trend", "news">>),
       TradeEntry("short", 2, 1, 2, <<>>),
       TradeEntry("long", 1, 1, 1, <<"range", "trend">>),
       TradeEntry("long", 1, 2, 2, <<"news">>),
       TradeEntry("short", 1, 2, 1, <<"trend">>),
       TradeEntry("long", 1, 2, 1, <<"range", "news">>) >>

PatternTradeInputs(i) ==
    IF i <= Len(PatternJournal) THEN {PatternJournal[i]}
    ELSE {TradeEntry("long", 1, 2, 1, <<"trend">>),
          TradeEntry("short", 1, 2, 2, <<"news", "range">>)}

NextPatterns ==
    \/ \E trade \in PatternTradeInputs(Len(trades) + 1) :
            create_trade(trade, MaxPatternTrades)
    \/ Requests({0, 1})

SpecPatterns == Init /\ [][NextPatterns]_vars

\* one journal over four labels, hence six features
RankingLabels == <<"trend", "range", "news", "gap">>

RankingTradeInputs(i) ==
    {TradeEntry(IF i % 2 = 0 THEN "long" ELSE "short", 1, 2 * (i % 2), 1,
                <<RankingLabels[1 + (i % 4)]>>)}

NextRanking ==
    \/ \E trade \in RankingTradeInputs(Len(trades) + 1) :
            create_trade(trade, MaxRankingTrades)
    \/ Requests({0, 1})

SpecRanking == Init /\ [][NextRanking]_vars

(***************************************************************************)
(* Properties.                                                             *)
(***************************************************************************)
Reported(op) == response.op = op /\ response.status = StatusOk

PnL(i) == profit_loss(trades[i])

Winners == {i \in 1..Len(trades) : PnL(i) > 0}

Losers == {i \in 1..Len(trades) : PnL(i) < 0}

Evens == {i \in 1..Len(trades) : PnL(i) = 0}

RECURSIVE TotalOver(_)
TotalOver(I) ==
    IF I = {} THEN 0
    ELSE LET i == CHOOSE j \in I : TRUE
         IN  Abs(PnL(i)) + TotalOver(I \ {i})

ReportFields == {"win_rate", "profit_factor", "average_win", "average_loss",
                 "best_conditions", "pattern_insights"}

\* C1: analyze_performance answers 404 "No trades found" exactly when the
\* collection is empty at the call; on a non-empty collection it answers
\* with a report and no error; the call leaves the collection unchanged.
C1_NotFoundIffEmpty ==
    [][response'.op = "analyze_performance" =>
        /\ trades' = trades
        /\ (response'.status = StatusNotFound) <=> (trades = <<>>)
        /\ trades = <<>> => /\ response'.detail = "No trades found"
                            /\ response'.body = <<>>
        /\ trades # <<>> => /\ response'.status = StatusOk
                            /\ response'.detail = ""
                            /\ DOMAIN response'.body = ReportFields]_vars

C1_Witness ==
    /\ response.op = "analyze_performance"
    /\ response.status = StatusNotFound
    /\ trades = <<>>

\* C2: analyze_patterns answers 400 "Need at least 10 trades for pattern
\* analysis" when fewer than 10 trades are stored, 9 included, and does not
\* when 10 or more are stored, whatever the trades hold.
C2_FloorOfTen ==
    response.op = "analyze_patterns" =>
        /\ Len(trades) < 10 =>
             /\ response.status = StatusBadRequest
             /\ response.detail = "Need at least 10 trades for pattern analysis"
        /\ Len(trades) >= 10 => response.status = StatusOk

C2_Witness ==
    /\ response.op = "analyze_patterns"
    /\ response.status = StatusBadRequest
    /\ Len(trades) = 9

\* C3: the reported win_rate is (trades with profit_loss > 0) / (all
\* trades), break-even trades counting in the denominator only; it lies in
\* [0,1] and is 0 when no trade has profit_loss > 0.
C3_WinRate ==
    Reported("analyze_performance") =>
        LET r == response.body.win_rate
        IN  /\ r[2] > 0
            /\ r[1] * Len(trades) = Cardinality(Winners) * r[2]
            /\ 0 <= r[1] /\ r[1] <= r[2]
            /\ (\A i \in 1..Len(trades) : PnL(i) <= 0) => r[1] = 0

C3_Witness ==
    /\ Reported("analyze_performance")
    /\ Winners # {} /\ Losers # {} /\ Evens # {}
    /\ response.body.win_rate = <<1, 3>>

\* C4: the reported profit_factor is sum(profits) / sum(|losses|) when some
\* trade has profit_loss < 0, and the infinity sentinel when none has, also
\* when no trade has a profit either (0/0).
C4_ProfitFactor ==
    Reported("analyze_performance") =>
        LET pf == response.body.profit_factor
        IN  IF Losers # {}
            THEN /\ pf[2] > 0
                 /\ pf[1] * TotalOver(Losers) = TotalOver(Winners) * pf[2]
            ELSE pf = Inf

C4_Witness ==
    /\ Reported("analyze_performance")
    /\ Len(trades) >= 2
    /\ Winners = {} /\ Losers = {}
    /\ response.body.profit_factor = Inf

\* C6: average_win is the mean of the profit_loss values > 0 (0 if none),
\* average_loss the mean of the absolute values of those < 0 (0 if none);
\* break-even trades are in neither pool; both are >= 0.
C6_Averages ==
    Reported("analyze_performance") =>
        LET aw == response.body.average_win
            al == response.body.average_loss
        IN  /\ aw[2] > 0 /\ aw[1] >= 0
            /\ al[2] > 0 /\ al[1] >= 0
            /\ aw[1] * Cardinality(Winners) = TotalOver(Winners) * aw[2]
            /\ al[1] * Cardinality(Losers) = TotalOver(Losers) * al[2]
            /\ Winners = {} => aw = <<0, 1>>
            /\ Losers = {} => al = <<0, 1>>

C6_Witness ==
    /\ Reported("analyze_performance")
    /\ Winners # {} /\ Losers # {} /\ Evens # {}
    /\ response.body.average_loss = <<2, 1>>

\* C7: every stored trade has direction long or short and non-negative
\* entry price, exit price and position size.
C7_ValidRecords ==
    \A i \in 1..Len(trades) :
        /\ trades[i].trade_type \in {"long", "short"}
        /\ trades[i].entry_price >= 0
        /\ trades[i].exit_price >= 0
        /\ trades[i].position_size >= 0

\* C10: the trade collection is append-only: create_trade adds the
\* submitted record at the end and keeps the earlier entries in order;
\* every other operation leaves the collection unchanged.
C10_AppendOnly ==
    [][IF response'.op = "create_trade"
       THEN \/ trades' = Append(trades, response'.body)
            \/ UNCHANGED vars
       ELSE trades' = trades]_vars

C10_Witness ==
    /\ Len(trades) = MaxTrades
    /\ trades[1] # trades[2]
    /\ response.op = "get_trades"
    /\ response.body = trades

Carriers(l) ==
    {i \in 1..Len(trades) : l \in Range(trades[i].market_conditions)}

WinningCarriers(l) == {i \in Carriers(l) : PnL(i) > 0}

FirstTrade(l) == CHOOSE i \in Carriers(l) : \A j \in Carriers(l) : i <= j

FirstPlace(l) ==
    LET mc == trades[FirstTrade(l)].market_conditions
    IN  CHOOSE k \in 1..Len(mc) :
            mc[k] = l /\ \A m \in 1..Len(mc) : mc[m] = l => k <= m

SeenBefore(l, m) ==
    \/ FirstTrade(l) < FirstTrade(m)
    \/ FirstTrade(l) = FirstTrade(m) /\ FirstPlace(l) < FirstPlace(m)

\* l ranks before m: a higher share of winning trades among the trades
\* carrying the label, or the same share and met earlier
RanksBefore(l, m) ==
    LET wl == Cardinality(WinningCarriers(l)) * Cardinality(Carriers(m))
        wm == Cardinality(WinningCarriers(m)) * Cardinality(Carriers(l))
    IN  wl > wm \/ (wl = wm /\ SeenBefore(l, m))

\* C5: best_conditions lists the distinct labels by descending win rate
\* (winning trades carrying the label / trades carrying the label), equal
\* rates in first-met order, cut to 3: min(3, distinct labels) entries, no
\* duplicates.
C5_BestConditions ==
    Reported("analyze_performance") =>
        LET bc == response.body.best_conditions
            D == UnionLabels(trades)
        IN  /\ Len(bc) = Min(3, Cardinality(D))
            /\ \A i \in 1..Len(bc) : bc[i] \in D
            /\ \A i, j \in 1..Len(bc) : i < j => RanksBefore(bc[i], bc[j])
            /\ \A l \in D \ Range(bc) :
                   \A i \in 1..Len(bc) : RanksBefore(bc[i], l)

\* C8: in analyze_patterns every feature vector has length 2 + (distinct
\* labels), column k + 2 of every trade tells whether the trade carries the
\* label named by feature name k + 2, the names are trade_type,
\* position_size and each label once, and every ranked (name, score) pair
\* is the score of the column of that name.
C8_FeaturesAligned ==
    Reported("analyze_patterns") =>
        LET D == UnionLabels(trades)
            X == frame.features
            names == frame.feature_names
            fi == frame.feature_importances
            n == 2 + Cardinality(D)
        IN  /\ Len(X) = Len(trades)
            /\ \A i \in 1..Len(X) : Len(X[i]) = n
            /\ Len(names) = n /\ Len(fi) = n
            /\ names[1] = "trade_type" /\ names[2] = "position_size"
            /\ {names[k] : k \in 3..n} = D
            /\ \A i \in 1..Len(X) :
                 /\ X[i][1] = 1 <=> trades[i].trade_type = "long"
                 /\ X[i][2] = trades[i].position_size
                 /\ \A k \in 3..n :
                      /\ X[i][k] \in {0, 1}
                      /\ X[i][k] = 1 <=>
                           names[k] \in Range(trades[i].market_conditions)
            /\ Len(frame.importance) = n
            /\ \A k \in 1..n : \E p \in 1..n :
                 /\ frame.importance[p].name = names[k]
                 /\ frame.importance[p].key = <<fi[k], 1>>

C8_Witness ==
    /\ Reported("analyze_patterns")
    /\ Len(frame.feature_names) = 5
    /\ frame.feature_names[3] = "news"
    /\ frame.feature_names[5] = "trend"
    /\ frame.feature_importances = <<0, 0, 1, 0, 0>>

\* C9: important_factors are the (feature, score) pairs by descending
\* score, cut to 5: min(5, features) entries, no omitted feature scoring
\* above a returned one; success_patterns has min(3, features) strings
\* naming the first three factors of that ranking in order.
C9_Ranking ==
    Reported("analyze_patterns") =>
        LET names == frame.feature_names
            fi == frame.feature_importances
            n == Len(fi)
            F == response.body.important_factors
            S == response.body.success_patterns
        IN  /\ Len(F) = Min(5, n)
            /\ \A i, j \in 1..Len(F) :
                 i < j => /\ F[i].importance >= F[j].importance
                          /\ F[i].factor # F[j].factor
            /\ \A i \in 1..Len(F) : \E k \in 1..n :
                 names[k] = F[i].factor /\ fi[k] = F[i].importance
            /\ \A k \in 1..n :
                 (\A i \in 1..Len(F) : F[i].factor # names[k]) =>
                 (\A i \in 1..Len(F) : fi[k] <= F[i].importance)
            /\ Len(S) = Min(3, n)
            /\ \A i \in 1..Len(S) :
                 /\ S[i].factor = F[i].factor
                 /\ S[i].text =
                      "High correlation between {} and profitable trades"

C9_Witness ==
    /\ Reported("analyze_patterns")
    /\ Len(frame.feature_importances) = 6
    /\ Len(response.body.important_factors) = 5
    /\ response.body.important_factors[1].importance = 1
    /\ response.body.important_factors[5].importance = 0
    /\ frame.feature_importances[1] = 0

====
